---- MODULE Spec2Model ----
(***************************************************************************)
(* A model of the multicache cache engine: the Primary store               *)
(* (cache.CacheManager), the Related store (cache.RelatedCacheManager)     *)
(* and the query-condition evaluator (StringFieldCondition,                *)
(* NumberFieldCondition, CompositeCondition).                              *)
(*                                                                         *)
(* A behaviour follows ONE store instance, created by either constructor   *)
(* (the variable kind says which); the two store types share no state.     *)
(*                                                                         *)
(*   Spec      every public operation is one atomic step (the whole        *)
(*             handler, run under the store's lock), time passes by Tick.  *)
(*   SpecConc  the same handlers cut at their lock operations and at each  *)
(*             read or write of a shared field, run by several threads.    *)
(***************************************************************************)
EXTENDS Integers, Sequences, FiniteSets, TLC

\* ------------------------------------------------------------------ bounds

\* Longest snapshot the loader returns.
MaxLen == 2
\* The clock runs from 1 to MaxTime.
MaxTime == 4
\* TTL values range over -1 .. MaxTTL (time.Duration is a signed integer).
MaxTTL == 2

\* time.Time{}: the zero instant, "unset".  time.Now() never returns it.
ZeroTime == 0

\* ---------------------------------------------------------------- entities

\* Strings are sequences of characters, so that Contains / HasPrefix /
\* HasSuffix are computed and not assumed.
StrA == <<"a">>
StrB == <<"b">>
StrAB == <<"a", "b">>

\* models.Order / models.User seen through GetID, GetUserID and one string
\* field.  Each foreign key is shared by two entities, and so is each primary
\* key: a loader is free to return several rows with one primary key.
Universe ==
  { [id |-> 1, fk |-> 10, name |-> StrA],
    [id |-> 2, fk |-> 10, name |-> StrB],
    [id |-> 2, fk |-> 20, name |-> StrAB],
    [id |-> 1, fk |-> 20, name |-> StrB] }

Ids == {e.id : e \in Universe}
FKs == {e.fk : e \in Universe}

\* var zero T
ZeroEntity == [id |-> 0, fk |-> 0, name |-> << >>]

GetID(e) == e.id
GetUserID(e) == e.fk

\* make(map[uint]T): a map is a function on the set of its keys.
EmptyMap == [k \in {} |-> ZeroEntity]

\* m[k] of a map[uint][]uint: the nil slice when k is no key.
Bucket(m, k) == IF k \in DOMAIN m THEN m[k] ELSE << >>

Range(s) == {s[i] : i \in DOMAIN s}

\* The orders in which `for _, item := range m` may visit the keys of a map:
\* Go leaves the order unspecified, so every permutation is possible.
IterOrders(m) ==
  LET K == DOMAIN m
      n == Cardinality(K)
  IN {s \in [1..n -> K] : \A i, j \in 1..n : s[i] = s[j] => i = j}

\* ------------------------------------------------------------------ loader

\* Errors a DataLoader may return; NoErr is the nil error.
NoErr == "nil"
LoadErrors == {"e1", "e2"}

AllSeqs(S, n) == UNION {[1..k -> S] : k \in 0..n}

\* DataLoader.Load() ([]T, error): any snapshot, or an error.
LoadOutcomes ==
  {[items |-> s, err |-> NoErr] : s \in AllSeqs(Universe, MaxLen)}
    \cup {[items |-> << >>, err |-> e] : e \in LoadErrors}

\* ------------------------------------------------- query-condition evaluator

\* strings.Contains / strings.HasPrefix / strings.HasSuffix
StrContains(s, sub) ==
  \E i \in 1..(Len(s) + 1) :
    /\ i + Len(sub) - 1 <= Len(s)
    /\ SubSeq(s, i, i + Len(sub) - 1) = sub
StrHasPrefix(s, p) == Len(s) >= Len(p) /\ SubSeq(s, 1, Len(p)) = p
StrHasSuffix(s, p) ==
  Len(s) >= Len(p) /\ SubSeq(s, Len(s) - Len(p) + 1, Len(s)) = p

\* Faulty variant of StringFieldCondition_Match: an unknown operation matches
\* every entity.
StringFieldCondition_Match_FailOpen(c, item) ==
  LET fieldValue == item[c.field] IN
  CASE c.op = "eq" -> fieldValue = c.value
    [] c.op = "contains" -> StrContains(fieldValue, c.value)
    [] c.op = "startsWith" -> StrHasPrefix(fieldValue, c.value)
    [] c.op = "endsWith" -> StrHasSuffix(fieldValue, c.value)
    [] OTHER -> TRUE

\* A FieldExtractor is a caller-supplied accessor: here, the name of a field.
StringFieldCondition_Match(c, item) ==
  LET fieldValue == item[c.field] IN
  CASE c.op = "eq" -> fieldValue = c.value
    [] c.op = "contains" -> StrContains(fieldValue, c.value)
    [] c.op = "startsWith" -> StrHasPrefix(fieldValue, c.value)
    [] c.op = "endsWith" -> StrHasSuffix(fieldValue, c.value)
    [] OTHER -> FALSE

\* Faulty variant of NumberFieldCondition_Match: "gte" and "lte" are strict.
NumberFieldCondition_Match_Strict(c, item) ==
  LET fieldValue == item[c.field] IN
  CASE c.op = "eq" -> fieldValue = c.value
    [] c.op = "gt" -> fieldValue > c.value
    [] c.op = "gte" -> fieldValue > c.value
    [] c.op = "lt" -> fieldValue < c.value
    [] c.op = "lte" -> fieldValue < c.value
    [] OTHER -> FALSE

NumberFieldCondition_Match(c, item) ==
  LET fieldValue == item[c.field] IN
  CASE c.op = "eq" -> fieldValue = c.value
    [] c.op = "gt" -> fieldValue > c.value
    [] c.op = "gte" -> fieldValue >= c.value
    [] c.op = "lt" -> fieldValue < c.value
    [] c.op = "lte" -> fieldValue <= c.value
    [] OTHER -> FALSE

RECURSIVE Match(_, _)
RECURSIVE AndLoop(_, _, _)
RECURSIVE OrLoop(_, _, _)

\* Faulty variant of AndLoop: only the first sub-condition is consulted.
AndLoop_FirstOnly(conds, i, item) == Match(conds[1], item)

\* case "and": the first non-matching sub-condition returns false.
AndLoop(conds, i, item) ==
  IF i > Len(conds) THEN TRUE
  ELSE IF ~Match(conds[i], item) THEN FALSE
  ELSE AndLoop(conds, i + 1, item)

\* case "or": the first matching sub-condition returns true.
OrLoop(conds, i, item) ==
  IF i > Len(conds) THEN FALSE
  ELSE IF Match(conds[i], item) THEN TRUE
  ELSE OrLoop(conds, i + 1, item)

\* Faulty variant of CompositeCondition.Match: the operation is dispatched
\* before the sequence is tested for emptiness.
CompositeCondition_Match_DispatchFirst(c, item) ==
  CASE c.op = "and" -> AndLoop(c.conds, 1, item)
    [] c.op = "or" -> OrLoop(c.conds, 1, item)
    [] OTHER -> FALSE

CompositeCondition_Match(c, item) ==
  IF Len(c.conds) = 0 THEN TRUE
  ELSE CASE c.op = "and" -> AndLoop(c.conds, 1, item)
         [] c.op = "or" -> OrLoop(c.conds, 1, item)
         [] OTHER -> FALSE

\* QueryCondition.Match, dispatched on the dynamic type of the condition.
Match(c, item) ==
  CASE c.type = "string" -> StringFieldCondition_Match(c, item)
    [] c.type = "number" -> NumberFieldCondition_Match(c, item)
    [] c.type = "composite" -> CompositeCondition_Match(c, item)

\* The calls cond.Match(item) made while c.Match(item) runs, in the order in
\* which they are made; a sub-condition is named by its path, the positions
\* that lead to it from c.
RECURSIVE MatchCalls(_, _, _)
RECURSIVE AndCalls(_, _, _, _)
RECURSIVE OrCalls(_, _, _, _)
RECURSIVE AndCalls_NoShortCircuit(_, _, _, _)

\* Faulty variant of AndCalls: the loop does not stop at a non-matching
\* sub-condition.
AndCalls_NoShortCircuit(conds, i, item, path) ==
  IF i > Len(conds) THEN << >>
  ELSE LET p == Append(path, i)
       IN <<p>> \o MatchCalls(conds[i], item, p)
            \o AndCalls_NoShortCircuit(conds, i + 1, item, path)

\* for _, cond := range c.Conditions { if !cond.Match(item) { return false } }
AndCalls(conds, i, item, path) ==
  IF i > Len(conds) THEN << >>
  ELSE LET p == Append(path, i)
           here == <<p>> \o MatchCalls(conds[i], item, p)
       IN IF ~Match(conds[i], item) THEN here
          ELSE here \o AndCalls(conds, i + 1, item, path)

\* for _, cond := range c.Conditions { if cond.Match(item) { return true } }
OrCalls(conds, i, item, path) ==
  IF i > Len(conds) THEN << >>
  ELSE LET p == Append(path, i)
           here == <<p>> \o MatchCalls(conds[i], item, p)
       IN IF Match(conds[i], item) THEN here
          ELSE here \o OrCalls(conds, i + 1, item, path)

MatchCalls(c, item, path) ==
  IF c.type # "composite" THEN << >>
  ELSE IF Len(c.conds) = 0 THEN << >>
  ELSE CASE c.op = "and" -> AndCalls(c.conds, 1, item, path)
         [] c.op = "or" -> OrCalls(c.conds, 1, item, path)
         [] OTHER -> << >>

StrCond(f, v, o) == [type |-> "string", field |-> f, value |-> v, op |-> o]
NumCond(f, v, o) == [type |-> "number", field |-> f, value |-> v, op |-> o]
Composite(cs, o) == [type |-> "composite", conds |-> cs, op |-> o]

NameContainsA == StrCond("name", StrA, "contains")
FkGte20 == NumCond("fk", 20, "gte")

\* The conditions the model passes to Query.
QueryConds ==
  << NameContainsA,
     FkGte20,
     Composite(<<NameContainsA, FkGte20>>, "and"),
     Composite(<<NameContainsA, FkGte20>>, "or"),
     StrCond("name", StrA, "like") >>

\* ------------------------------------------------------------------- state

VARIABLES
  kind,       \* "primary" (CacheManager) or "related" (RelatedCacheManager)
  data,       \* map[uint]T: primary key -> entity
  fkIndex,    \* map[uint][]uint: foreign key -> primary keys (Related store)
  ttl,        \* time.Duration
  lastFetch,  \* time.Time; ZeroTime until the first successful Refresh
  now,        \* the clock read by time.Now() and time.Since()
  last,       \* Spec: the call that has just returned, and what it returned
  snap,       \* history: the snapshot of the latest successful Refresh
  snapAt,     \* history: the time at which that Refresh ran
  hasSnap,    \* history: data still is what that Refresh stored (no Clear since)
  dropped,    \* history: that Refresh found a cached key its snapshot lacks
  th,         \* SpecConc: each thread's operation, position and locals
  readers,    \* SpecConc: mu, the threads that hold the read lock
  wowner,     \* SpecConc: mu, the thread inside Lock() .. Unlock(), or NoThread
  committed,  \* SpecConc, history: the fields as the last Unlock() left them
  ev,         \* SpecEval: the evaluation that has just been made
  twin        \* SpecPair: a Primary store run beside the Related store

storeVars == <<kind, data, fkIndex, ttl, lastFetch>>
histVars == <<snap, snapAt, hasSnap, dropped>>
concVars == <<th, readers, wowner, committed>>
vars ==
  <<kind, data, fkIndex, ttl, lastFetch, now, last, snap, snapAt, hasSnap,
    dropped, th, readers, wowner, committed, ev, twin>>

TTLs == (-1)..MaxTTL

\* The fields of the store, as one value.
Store == [data |-> data, fkIndex |-> fkIndex, ttl |-> ttl, lastFetch |-> lastFetch]

\* ------------------------------------------------------------ Go's values

\* An interface{} value: its dynamic type, and the value it boxes.  The
\* untyped nil returned from a func() interface{} is the nil interface.
NilInterface == [dyn |-> "nil", items |-> << >>, err |-> NoErr]
BoxSlice(items) == [dyn |-> "[]T", items |-> items, err |-> NoErr]
BoxError(e) == [dyn |-> "error", items |-> << >>, err |-> e]

\* What an operation hands back to its caller.  panic: the call did not
\* return normally.
NoResult ==
  [panic |-> FALSE, items |-> << >>, item |-> ZeroEntity, err |-> NoErr,
   found |-> FALSE]
Panicked == [NoResult EXCEPT !.panic = TRUE]

\* result.([]T): a run-time panic unless the interface holds a []T.
AssertSlice(i) ==
  IF i.dyn = "[]T" THEN [NoResult EXCEPT !.items = i.items] ELSE Panicked

ErrExpired == "cache expired"
ErrNotFound == "item not found"

\* ------------------------------------------------------------ Primary store

\* Faulty variant of CM_isExpired: the comparison turned round.
CM_isExpired_Inverted(s, n) ==
  s.ttl > 0 /\ s.lastFetch # ZeroTime /\ n - s.lastFetch < s.ttl

\* Faulty variant of CM_isExpired: without the ttl > 0 guard (the Related store's test).
CM_isExpired_NoSentinel(s, n) ==
  s.lastFetch # ZeroTime /\ n - s.lastFetch > s.ttl

\* Faulty variant of CM_isExpired: the unset timestamp is not excepted.
CM_isExpired_NoZeroGuard(s, n) == s.ttl > 0 /\ n - s.lastFetch > s.ttl

\* cm.ttl > 0 && !cm.lastFetch.IsZero() && time.Since(cm.lastFetch) > cm.ttl
CM_isExpired(s, n) ==
  s.ttl > 0 /\ s.lastFetch # ZeroTime /\ n - s.lastFetch > s.ttl

\* Faulty variant of CM_Get: the `exists` result of the map lookup is ignored.
CM_Get_NoExistsCheck(s, n, id) ==
  IF CM_isExpired(s, n) THEN [NoResult EXCEPT !.err = ErrExpired]
  ELSE IF id \notin DOMAIN s.data THEN NoResult
  ELSE [NoResult EXCEPT !.item = s.data[id]]

CM_Get(s, n, id) ==
  IF CM_isExpired(s, n) THEN [NoResult EXCEPT !.err = ErrExpired]
  ELSE IF id \notin DOMAIN s.data THEN [NoResult EXCEPT !.err = ErrNotFound]
  ELSE [NoResult EXCEPT !.item = s.data[id]]

\* The items of map d visited in order ord.
Items(d, ord) == [i \in 1..Len(ord) |-> d[ord[i]]]

\* The closure GetAll runs under the read lock.
CM_GetAllOp(s, n, ord) ==
  IF CM_isExpired(s, n) THEN NilInterface
  ELSE BoxSlice(Items(s.data, ord))

CM_GetAll(s, n, ord) == AssertSlice(CM_GetAllOp(s, n, ord))

\* The closure Query runs under the read lock.
CM_QueryOp(s, n, ord, c) ==
  IF CM_isExpired(s, n) THEN NilInterface
  ELSE BoxSlice(SelectSeq(Items(s.data, ord), LAMBDA e : Match(c, e)))

CM_Query(s, n, ord, c) == AssertSlice(CM_QueryOp(s, n, ord, c))

RECURSIVE BuildData_KeepFirst(_, _, _)
\* Faulty variant of BuildData: a key already present is not overwritten.
BuildData_KeepFirst(items, i, acc) ==
  IF i > Len(items) THEN acc
  ELSE BuildData_KeepFirst(items, i + 1, acc @@ (GetID(items[i]) :> items[i]))

RECURSIVE BuildData(_, _, _)
\* for _, item := range items { newData[item.GetID()] = item }
BuildData(items, i, acc) ==
  IF i > Len(items) THEN acc
  ELSE BuildData(items, i + 1, (GetID(items[i]) :> items[i]) @@ acc)

\* Faulty variant of CM_RefreshOp: the old data is dropped before Load is known to
\* have succeeded.
CM_RefreshOp_ClearsFirst(s, n, out) ==
  IF out.err # NoErr
  THEN [store |-> [s EXCEPT !.data = EmptyMap], ret |-> BoxError(out.err)]
  ELSE [store |-> [s EXCEPT !.data = BuildData(out.items, 1, EmptyMap),
                            !.lastFetch = n],
        ret |-> NilInterface]

\* Faulty variant of CM_RefreshOp: a failed Load still stamps lastFetch.
CM_RefreshOp_StampsOnFailure(s, n, out) ==
  IF out.err # NoErr
  THEN [store |-> [s EXCEPT !.lastFetch = n], ret |-> BoxError(out.err)]
  ELSE [store |-> [s EXCEPT !.data = BuildData(out.items, 1, EmptyMap),
                            !.lastFetch = n],
        ret |-> NilInterface]

\* The closure Refresh runs under the write lock: the new store and the
\* interface{} it returns (the loader's error, or nil).
CM_RefreshOp(s, n, out) ==
  IF out.err # NoErr THEN [store |-> s, ret |-> BoxError(out.err)]
  ELSE [store |-> [s EXCEPT !.data = BuildData(out.items, 1, EmptyMap),
                            !.lastFetch = n],
        ret |-> NilInterface]

\* Faulty variant of CM_Refresh: the loader's error is replaced by a new error.
CM_Refresh_Wraps(s, n, out) ==
  LET r == CM_RefreshOp(s, n, out) IN
  [store |-> r.store,
   err |-> IF r.ret.dyn # "nil" THEN "refresh failed" ELSE NoErr]

\* if err != nil { return err.(error) }; return nil
CM_Refresh(s, n, out) ==
  LET r == CM_RefreshOp(s, n, out) IN
  [store |-> r.store,
   err |-> IF r.ret.dyn # "nil" THEN r.ret.err ELSE NoErr]

\* Faulty variant of CM_Clear: the fetch timestamp is reset with the data.
CM_Clear_ResetsFetch(s) == [s EXCEPT !.data = EmptyMap, !.lastFetch = ZeroTime]

CM_Clear(s) == [s EXCEPT !.data = EmptyMap]

\* Faulty variant of CM_WithTTL: the new ttl is not stored.
CM_WithTTL_Ignored(s, d) == s

CM_WithTTL(s, d) == [s EXCEPT !.ttl = d]

\* ------------------------------------------------------------ Related store

\* Faulty variant of RCM_isExpired: ttl <= 0 means "never expires", as in the
\* Primary store.
RCM_isExpired_Sentinel(s, n) ==
  s.ttl > 0 /\ s.lastFetch # ZeroTime /\ n - s.lastFetch > s.ttl

\* !rcm.lastFetch.IsZero() && time.Since(rcm.lastFetch) > rcm.ttl
RCM_isExpired(s, n) == s.lastFetch # ZeroTime /\ n - s.lastFetch > s.ttl

\* Faulty variant of RCM_Get: an expired store still hands out the stale entity,
\* with found = false.
RCM_Get_StaleItem(s, n, id) ==
  IF id \notin DOMAIN s.data THEN NoResult
  ELSE [NoResult EXCEPT !.item = s.data[id], !.found = ~RCM_isExpired(s, n)]

RCM_Get(s, n, id) ==
  IF RCM_isExpired(s, n) THEN NoResult
  ELSE IF id \in DOMAIN s.data
       THEN [NoResult EXCEPT !.item = s.data[id], !.found = TRUE]
       ELSE NoResult

\* Faulty variant of RCM_GetByForeignKey: the index is served without the
\* expiry test.
RCM_GetByForeignKey_NoExpiry(s, n, fkID) ==
  LET pks == Bucket(s.fkIndex, fkID)
      present == SelectSeq(pks, LAMBDA pk : pk \in DOMAIN s.data)
  IN [NoResult EXCEPT !.items = Items(s.data, present)]

RCM_GetByForeignKey(s, n, fkID) ==
  IF RCM_isExpired(s, n) THEN NoResult
  ELSE LET pks == Bucket(s.fkIndex, fkID)
           present == SelectSeq(pks, LAMBDA pk : pk \in DOMAIN s.data)
       IN [NoResult EXCEPT !.items = Items(s.data, present)]

RCM_GetAll(s, n, ord) ==
  IF RCM_isExpired(s, n) THEN NoResult
  ELSE [NoResult EXCEPT !.items = Items(s.data, ord)]

\* Faulty variant of RCM_Query: the scan stops at the first match.
RCM_Query_FirstMatch(s, n, ord, c) ==
  IF RCM_isExpired(s, n) THEN NoResult
  ELSE LET all == SelectSeq(Items(s.data, ord), LAMBDA e : Match(c, e))
       IN [NoResult EXCEPT !.items = IF all = << >> THEN all ELSE <<all[1]>>]

RCM_Query(s, n, ord, c) ==
  IF RCM_isExpired(s, n) THEN NoResult
  ELSE [NoResult EXCEPT
          !.items = SelectSeq(Items(s.data, ord), LAMBDA e : Match(c, e))]

RECURSIVE BuildFKIndex(_, _, _)
\* newFKIndex[fk] = append(newFKIndex[fk], pk)
BuildFKIndex(items, i, acc) ==
  IF i > Len(items) THEN acc
  ELSE LET pk == GetID(items[i])
           fk == GetUserID(items[i])
       IN BuildFKIndex(items, i + 1, (fk :> Append(Bucket(acc, fk), pk)) @@ acc)

\* Faulty variant of RCM_Refresh: the snapshot is merged into the old maps.
RCM_Refresh_Patches(s, n, out) ==
  IF out.err # NoErr THEN [store |-> s, err |-> out.err]
  ELSE [store |-> [s EXCEPT !.data = BuildData(out.items, 1, s.data),
                            !.fkIndex = BuildFKIndex(out.items, 1, s.fkIndex),
                            !.lastFetch = n],
        err |-> NoErr]

\* Faulty variant of RCM_Refresh: data is replaced, the index is extended.
RCM_Refresh_KeepsIndex(s, n, out) ==
  IF out.err # NoErr THEN [store |-> s, err |-> out.err]
  ELSE [store |-> [s EXCEPT !.data = BuildData(out.items, 1, EmptyMap),
                            !.fkIndex = BuildFKIndex(out.items, 1, s.fkIndex),
                            !.lastFetch = n],
        err |-> NoErr]

\* Faulty variant of RCM_Refresh: of the entities that share a primary key
\* the first one is kept.
RCM_Refresh_KeepsFirst(s, n, out) ==
  IF out.err # NoErr THEN [store |-> s, err |-> out.err]
  ELSE [store |-> [s EXCEPT !.data = BuildData_KeepFirst(out.items, 1, EmptyMap),
                            !.fkIndex = BuildFKIndex(out.items, 1, EmptyMap),
                            !.lastFetch = n],
        err |-> NoErr]

RCM_Refresh(s, n, out) ==
  IF out.err # NoErr THEN [store |-> s, err |-> out.err]
  ELSE [store |-> [s EXCEPT !.data = BuildData(out.items, 1, EmptyMap),
                            !.fkIndex = BuildFKIndex(out.items, 1, EmptyMap),
                            !.lastFetch = n],
        err |-> NoErr]

\* Faulty variant of RCM_Clear: the index survives the clearing of data.
RCM_Clear_DataOnly(s) == [s EXCEPT !.data = EmptyMap]

RCM_Clear(s) == [s EXCEPT !.data = EmptyMap, !.fkIndex = EmptyMap]

\* ----------------------------------------------------------------- actions

NoLoad == [items |-> << >>, err |-> NoErr]
\* last: the operation, its argument, its result, what Load returned to it,
\* and the ttl it found when it was called.
NoOp == [op |-> "none", arg |-> 0, res |-> NoResult, out |-> NoLoad, ttl0 |-> 0]
Op(o, a, r) == [op |-> o, arg |-> a, res |-> r, out |-> NoLoad, ttl0 |-> ttl]

SetStore(s) ==
  /\ data' = s.data
  /\ fkIndex' = s.fkIndex
  /\ ttl' = s.ttl
  /\ lastFetch' = s.lastFetch
  /\ kind' = kind

\* ---------------------------------------------------------------- threads

Threads == {"t1", "t2"}
NoThread == "none"

\* A thread that is in no operation.
Idle ==
  [pc |-> "idle", op |-> "none", arg |-> 0,
   view |-> {},      \* what isExpired read: {[ttl, lastFetch, n]}
   obsFK |-> {},     \* the fkIndex it read, if it has read it
   obsData |-> {},   \* the data it read, if it has read it
   base |-> {},      \* history: the committed fields when it took the read lock
   out |-> NoLoad,   \* Refresh: what Load returned
   loads |-> 0,      \* the calls of loader.Load() it has made in this operation
   res |-> NoResult]

\* A Primary store as NewCacheManager leaves it, and the result of its last
\* call.
NoTwin ==
  [store |-> [data |-> EmptyMap, fkIndex |-> EmptyMap, ttl |-> 0,
              lastFetch |-> ZeroTime],
   res |-> NoResult]

\* No condition has been evaluated.
NoEval == [kind |-> "none"]

\* NewCacheManager(loader): ttl 0.  NewRelatedCacheManager(loader, ttl).
Init ==
  /\ kind \in {"primary", "related"}
  /\ data = EmptyMap
  /\ fkIndex = EmptyMap
  /\ ttl \in (IF kind = "primary" THEN {0} ELSE TTLs)
  /\ lastFetch = ZeroTime
  /\ now = 1
  /\ last = NoOp
  /\ snap = << >>
  /\ snapAt = ZeroTime
  /\ hasSnap = FALSE
  /\ dropped = FALSE
  /\ th = [t \in Threads |-> Idle]
  /\ readers = {}
  /\ wowner = NoThread
  /\ committed = [data |-> EmptyMap, fkIndex |-> EmptyMap, lastFetch |-> ZeroTime]
  /\ ev = NoEval
  /\ twin = NoTwin

\* The caller is between two calls: it has taken the result of its last one.
Ready == last.op = "none"

\* The caller takes the result of the call that has just returned.
Return ==
  /\ ~Ready
  /\ last' = NoOp
  /\ UNCHANGED <<storeVars, now, histVars, concVars, ev, twin>>

\* Time passes between two operations.
Tick ==
  /\ Ready
  /\ now < MaxTime
  /\ now' = now + 1
  /\ UNCHANGED <<storeVars, last, histVars, concVars, ev, twin>>

CMWithTTL ==
  /\ Ready
  /\ kind = "primary"
  /\ \E d \in TTLs :
       /\ SetStore(CM_WithTTL(Store, d))
       /\ last' = Op("WithTTL", d, NoResult)
  /\ UNCHANGED <<now, histVars, concVars, ev, twin>>

CMGet ==
  /\ Ready
  /\ kind = "primary"
  /\ \E id \in Ids : last' = Op("Get", id, CM_Get(Store, now, id))
  /\ UNCHANGED <<storeVars, now, histVars, concVars, ev, twin>>

CMGetAll ==
  /\ Ready
  /\ kind = "primary"
  /\ \E ord \in IterOrders(data) :
       last' = Op("GetAll", 0, CM_GetAll(Store, now, ord))
  /\ UNCHANGED <<storeVars, now, histVars, concVars, ev, twin>>

CMQuery ==
  /\ Ready
  /\ kind = "primary"
  /\ \E ord \in IterOrders(data), k \in DOMAIN QueryConds :
       last' = Op("Query", k, CM_Query(Store, now, ord, QueryConds[k]))
  /\ UNCHANGED <<storeVars, now, histVars, concVars, ev, twin>>

\* What a Refresh leaves in the history variables.
Loaded(out) ==
  /\ snap' = IF out.err = NoErr THEN out.items ELSE snap
  /\ snapAt' = IF out.err = NoErr THEN now ELSE snapAt
  /\ hasSnap' = IF out.err = NoErr THEN TRUE ELSE hasSnap
  /\ dropped' = IF out.err = NoErr
                THEN \E k \in DOMAIN data : \A i \in DOMAIN out.items : out.items[i].id # k
                ELSE dropped

CMRefresh ==
  /\ Ready
  /\ kind = "primary"
  /\ \E out \in LoadOutcomes :
       LET r == CM_Refresh(Store, now, out) IN
       /\ SetStore(r.store)
       /\ last' = [op |-> "Refresh", arg |-> 0,
                   res |-> [NoResult EXCEPT !.err = r.err], out |-> out,
                   ttl0 |-> ttl]
       /\ Loaded(out)
  /\ UNCHANGED <<now, concVars, ev, twin>>

CMClear ==
  /\ Ready
  /\ kind = "primary"
  /\ SetStore(CM_Clear(Store))
  /\ last' = Op("Clear", 0, NoResult)
  /\ hasSnap' = FALSE
  /\ UNCHANGED <<now, snap, snapAt, dropped, concVars, ev, twin>>

RCMGet ==
  /\ Ready
  /\ kind = "related"
  /\ \E id \in Ids : last' = Op("Get", id, RCM_Get(Store, now, id))
  /\ UNCHANGED <<storeVars, now, histVars, concVars, ev, twin>>

RCMGetByForeignKey ==
  /\ Ready
  /\ kind = "related"
  /\ \E fkID \in FKs :
       last' = Op("GetByForeignKey", fkID, RCM_GetByForeignKey(Store, now, fkID))
  /\ UNCHANGED <<storeVars, now, histVars, concVars, ev, twin>>

\* Faulty variant of RCMGetAll: a read that finds the store expired evicts
\* the stale entries.
RCMGetAll_Evicts ==
  /\ Ready
  /\ kind = "related"
  /\ \E ord \in IterOrders(data) :
       last' = Op("GetAll", 0, RCM_GetAll(Store, now, ord))
  /\ SetStore(IF RCM_isExpired(Store, now) THEN RCM_Clear(Store) ELSE Store)
  /\ UNCHANGED <<now, histVars, concVars, ev, twin>>

RCMGetAll ==
  /\ Ready
  /\ kind = "related"
  /\ \E ord \in IterOrders(data) :
       last' = Op("GetAll", 0, RCM_GetAll(Store, now, ord))
  /\ UNCHANGED <<storeVars, now, histVars, concVars, ev, twin>>

RCMQuery ==
  /\ Ready
  /\ kind = "related"
  /\ \E ord \in IterOrders(data), k \in DOMAIN QueryConds :
       last' = Op("Query", k, RCM_Query(Store, now, ord, QueryConds[k]))
  /\ UNCHANGED <<storeVars, now, histVars, concVars, ev, twin>>

RCMRefresh ==
  /\ Ready
  /\ kind = "related"
  /\ \E out \in LoadOutcomes :
       LET r == RCM_Refresh(Store, now, out) IN
       /\ SetStore(r.store)
       /\ last' = [op |-> "Refresh", arg |-> 0,
                   res |-> [NoResult EXCEPT !.err = r.err], out |-> out,
                   ttl0 |-> ttl]
       /\ Loaded(out)
  /\ UNCHANGED <<now, concVars, ev, twin>>

RCMClear ==
  /\ Ready
  /\ kind = "related"
  /\ SetStore(RCM_Clear(Store))
  /\ last' = Op("Clear", 0, NoResult)
  /\ hasSnap' = FALSE
  /\ UNCHANGED <<now, snap, snapAt, dropped, concVars, ev, twin>>

Next ==
  \/ Return
  \/ Tick
  \/ CMWithTTL
  \/ CMGet
  \/ CMGetAll
  \/ CMQuery
  \/ CMRefresh
  \/ CMClear
  \/ RCMGet
  \/ RCMGetByForeignKey
  \/ RCMGetAll
  \/ RCMQuery
  \/ RCMRefresh
  \/ RCMClear

Spec == Init /\ [][Next]_vars

\* ------------------------------------------------------- concurrent handlers
\* SpecConc: each handler is cut at mu.RLock / mu.RUnlock / mu.Lock /
\* mu.Unlock and at every read or write of data, fkIndex and lastFetch.

ReadOps == {"Get", "GetAll", "Query", "GetByForeignKey"}

\* The operations a thread may call, with their arguments.
Calls ==
  {[op |-> "Get", arg |-> id] : id \in Ids}
    \cup {[op |-> "GetAll", arg |-> 0], [op |-> "Query", arg |-> 1],
          [op |-> "Refresh", arg |-> 0], [op |-> "Clear", arg |-> 0]}
    \cup (IF kind = "related"
          THEN {[op |-> "GetByForeignKey", arg |-> f] : f \in FKs}
          ELSE {})

\* What the loader returns in SpecConc: two snapshots and an error.
ConcOutcomes ==
  { [items |-> << [id |-> 1, fk |-> 10, name |-> StrA],
                  [id |-> 2, fk |-> 10, name |-> StrB] >>, err |-> NoErr],
    [items |-> << [id |-> 1, fk |-> 20, name |-> StrB] >>, err |-> NoErr],
    [items |-> << >>, err |-> "e1"] }

\* Faulty variant of CanRLock: a reader does not wait for the writer.
CanRLock_NoWait == TRUE

\* Faulty variant of CanRLock: the lock is a plain mutex, one reader at a time.
CanRLock_Exclusive == wowner = NoThread /\ readers = {}

\* sync.RWMutex.  RLock returns once no writer holds the lock or waits for
\* it; Lock first excludes the other writers and new readers, then waits for
\* the readers inside to leave.
CanRLock == wowner = NoThread
\* Faulty variant of CanLock: a writer does not wait for the writer inside.
CanLock_NoWait == TRUE

CanLock == wowner = NoThread

\* Faulty variant of ReadersGone: Lock() returns while readers are inside.
ReadersGone_NoWait == TRUE

ReadersGone == readers = {}

Fields == [data |-> data, fkIndex |-> fkIndex, lastFetch |-> lastFetch]

Step(t, r) == th' = [th EXCEPT ![t] = r]

\* A read operation run on store s at time n, the map visited in order ord.
ReadResult(k, op, arg, s, n, ord) ==
  IF k = "primary"
  THEN CASE op = "Get" -> CM_Get(s, n, arg)
         [] op = "GetAll" -> CM_GetAll(s, n, ord)
         [] op = "Query" -> CM_Query(s, n, ord, QueryConds[arg])
  ELSE CASE op = "Get" -> RCM_Get(s, n, arg)
         [] op = "GetAll" -> RCM_GetAll(s, n, ord)
         [] op = "Query" -> RCM_Query(s, n, ord, QueryConds[arg])
         [] op = "GetByForeignKey" -> RCM_GetByForeignKey(s, n, arg)

IsExpiredOf(k, s, n) ==
  IF k = "primary" THEN CM_isExpired(s, n) ELSE RCM_isExpired(s, n)

\* A thread enters an operation.
Call(t) ==
  /\ th[t].pc = "idle"
  /\ \E c \in Calls :
       Step(t, [Idle EXCEPT !.op = c.op, !.arg = c.arg,
                            !.pc = IF c.op \in ReadOps THEN "rlock" ELSE "lock"])
  /\ UNCHANGED <<storeVars, now, last, histVars, readers, wowner, committed, ev,
                 twin>>

\* WithTTL takes no lock: cm.ttl = ttl.
ConcWithTTL(t) ==
  /\ kind = "primary"
  /\ th[t].pc = "idle"
  /\ \E d \in TTLs : SetStore(CM_WithTTL(Store, d))
  /\ UNCHANGED <<now, last, histVars, concVars, ev, twin>>

\* mu.RLock()
RLock(t) ==
  /\ th[t].pc = "rlock"
  /\ CanRLock
  /\ readers' = readers \cup {t}
  /\ Step(t, [th[t] EXCEPT !.pc = "expired", !.base = {committed}])
  /\ UNCHANGED <<storeVars, now, last, histVars, wowner, committed, ev, twin>>

\* if isExpired() { return the empty result }
CheckExpired(t) ==
  /\ th[t].pc = "expired"
  /\ LET v == [ttl |-> ttl, lastFetch |-> lastFetch, n |-> now]
         s == [data |-> EmptyMap, fkIndex |-> EmptyMap, ttl |-> ttl,
               lastFetch |-> lastFetch]
     IN IF IsExpiredOf(kind, Store, now)
        THEN Step(t, [th[t] EXCEPT
                        !.view = {v}, !.pc = "runlock",
                        !.res = ReadResult(kind, th[t].op, th[t].arg, s, now, << >>)])
        ELSE Step(t, [th[t] EXCEPT
                        !.view = {v},
                        !.pc = IF th[t].op = "GetByForeignKey"
                               THEN "index" ELSE "scan"])
  /\ UNCHANGED <<storeVars, now, last, histVars, readers, wowner, committed, ev,
                 twin>>

\* pks := rcm.fkIndex[fkID]
ReadIndex(t) ==
  /\ th[t].pc = "index"
  /\ Step(t, [th[t] EXCEPT !.obsFK = {fkIndex}, !.pc = "scan"])
  /\ UNCHANGED <<storeVars, now, last, histVars, readers, wowner, committed, ev,
                 twin>>

\* The lookup in, or the loop over, data.
ReadData(t) ==
  /\ th[t].pc = "scan"
  /\ \E v \in th[t].view, ord \in IterOrders(data) :
       LET fk == IF th[t].obsFK = {} THEN EmptyMap
                 ELSE CHOOSE f \in th[t].obsFK : TRUE
           s == [data |-> data, fkIndex |-> fk, ttl |-> v.ttl,
                 lastFetch |-> v.lastFetch]
       IN Step(t, [th[t] EXCEPT
                     !.obsData = {data}, !.pc = "runlock",
                     !.res = ReadResult(kind, th[t].op, th[t].arg, s, v.n, ord)])
  /\ UNCHANGED <<storeVars, now, last, histVars, readers, wowner, committed, ev,
                 twin>>

\* defer mu.RUnlock(), and the return: the thread is free for its next call.
RUnlock(t) ==
  /\ th[t].pc = "runlock"
  /\ readers' = readers \ {t}
  /\ Step(t, Idle)
  /\ UNCHANGED <<storeVars, now, last, histVars, wowner, committed, ev, twin>>

\* mu.Lock(), first half: exclude the other writers and new readers.
Lock(t) ==
  /\ th[t].pc = "lock"
  /\ CanLock
  /\ wowner' = t
  /\ Step(t, [th[t] EXCEPT !.pc = "drain"])
  /\ UNCHANGED <<storeVars, now, last, histVars, readers, committed, ev, twin>>

\* mu.Lock(), second half: wait for the readers inside.
Drain(t) ==
  /\ th[t].pc = "drain"
  /\ ReadersGone
  /\ Step(t, [th[t] EXCEPT
                !.pc = IF th[t].op = "Refresh" THEN "load" ELSE "cleardata"])
  /\ UNCHANGED <<storeVars, now, last, histVars, readers, wowner, committed, ev,
                 twin>>

\* Faulty variant of Load: a failed Load is tried a second time.
Load_Retries(t) ==
  /\ th[t].pc = "load"
  /\ \E out \in ConcOutcomes :
       Step(t, [th[t] EXCEPT
                  !.out = out,
                  !.loads = @ + 1,
                  !.res = [NoResult EXCEPT !.err = out.err],
                  !.pc = IF out.err = NoErr THEN "setdata"
                         ELSE IF th[t].loads = 0 THEN "load" ELSE "unlock"])
  /\ UNCHANGED <<storeVars, now, last, histVars, readers, wowner, committed, ev,
                 twin>>

\* items, err := loader.Load(); if err != nil { return err }
Load(t) ==
  /\ th[t].pc = "load"
  /\ \E out \in ConcOutcomes :
       Step(t, [th[t] EXCEPT
                  !.out = out,
                  !.loads = @ + 1,
                  !.res = [NoResult EXCEPT !.err = out.err],
                  !.pc = IF out.err # NoErr THEN "unlock" ELSE "setdata"])
  /\ UNCHANGED <<storeVars, now, last, histVars, readers, wowner, committed, ev,
                 twin>>

\* data = newData
SetData(t) ==
  /\ th[t].pc = "setdata"
  /\ data' = BuildData(th[t].out.items, 1, EmptyMap)
  /\ Step(t, [th[t] EXCEPT
                !.pc = IF kind = "related" THEN "setindex" ELSE "setfetch"])
  /\ UNCHANGED <<kind, fkIndex, ttl, lastFetch, now, last, histVars, readers,
                 wowner, committed, ev, twin>>

\* rcm.fkIndex = newFKIndex
SetIndex(t) ==
  /\ th[t].pc = "setindex"
  /\ fkIndex' = BuildFKIndex(th[t].out.items, 1, EmptyMap)
  /\ Step(t, [th[t] EXCEPT !.pc = "setfetch"])
  /\ UNCHANGED <<kind, data, ttl, lastFetch, now, last, histVars, readers,
                 wowner, committed, ev, twin>>

\* lastFetch = time.Now()
SetFetch(t) ==
  /\ th[t].pc = "setfetch"
  /\ lastFetch' = now
  /\ Step(t, [th[t] EXCEPT !.pc = "unlock"])
  /\ UNCHANGED <<kind, data, fkIndex, ttl, now, last, histVars, readers,
                 wowner, committed, ev, twin>>

\* Clear: data = make(map[uint]T)
ClearData(t) ==
  /\ th[t].pc = "cleardata"
  /\ data' = EmptyMap
  /\ Step(t, [th[t] EXCEPT
                !.pc = IF kind = "related" THEN "clearindex" ELSE "unlock"])
  /\ UNCHANGED <<kind, fkIndex, ttl, lastFetch, now, last, histVars, readers,
                 wowner, committed, ev, twin>>

\* Clear: rcm.fkIndex = make(map[uint][]uint)
ClearIndex(t) ==
  /\ th[t].pc = "clearindex"
  /\ fkIndex' = EmptyMap
  /\ Step(t, [th[t] EXCEPT !.pc = "unlock"])
  /\ UNCHANGED <<kind, data, ttl, lastFetch, now, last, histVars, readers,
                 wowner, committed, ev, twin>>

\* defer mu.Unlock(), and the return.
Unlock(t) ==
  /\ th[t].pc = "unlock"
  /\ wowner' = NoThread
  /\ committed' = Fields
  /\ Step(t, Idle)
  /\ UNCHANGED <<storeVars, now, last, histVars, readers, ev, twin>>

ConcTick ==
  /\ now < MaxTime
  /\ now' = now + 1
  /\ UNCHANGED <<storeVars, last, histVars, concVars, ev, twin>>

ConcNext ==
  \/ ConcTick
  \/ \E t \in Threads :
       \/ Call(t)
       \/ ConcWithTTL(t)
       \/ RLock(t)
       \/ CheckExpired(t)
       \/ ReadIndex(t)
       \/ ReadData(t)
       \/ RUnlock(t)
       \/ Lock(t)
       \/ Drain(t)
       \/ Load(t)
       \/ SetData(t)
       \/ SetIndex(t)
       \/ SetFetch(t)
       \/ ClearData(t)
       \/ ClearIndex(t)
       \/ Unlock(t)

SpecConc == Init /\ [][ConcNext]_vars

\* The steps a thread takes by itself once it has been given the lock, or
\* while, as a writer, it waits for the readers inside to leave.
Inside(t) ==
  \/ CheckExpired(t)
  \/ ReadIndex(t)
  \/ ReadData(t)
  \/ RUnlock(t)
  \/ Drain(t)
  \/ Load(t)
  \/ SetData(t)
  \/ SetIndex(t)
  \/ SetFetch(t)
  \/ ClearData(t)
  \/ ClearIndex(t)
  \/ Unlock(t)

\* A running thread is scheduled, and loader.Load() returns (weak fairness
\* of the thread's own steps); sync.RWMutex starves neither readers nor
\* writers: a goroutine blocked in RLock() or Lock() gets the lock if the
\* lock is free again and again (strong fairness of the two acquisitions).
\* Nothing obliges a caller to call, or time to pass.
Fairness ==
  \A t \in Threads :
    /\ WF_vars(Inside(t))
    /\ SF_vars(RLock(t))
    /\ SF_vars(Lock(t))

SpecConcFair == SpecConc /\ Fairness

\* ------------------------------------------------- evaluating conditions
\* SpecEval: a store that has just been refreshed, on which one evaluation is
\* made: Match on one entity, or Query with two conditions and with their
\* composite.

\* Operation names, the documented ones and two that are not ("like"/"ne",
\* and the empty name).
StrOps == {"eq", "contains", "startsWith", "endsWith", "like", ""}
NumOps == {"eq", "gt", "gte", "lt", "lte", "ne", ""}

StrBA == <<"b", "a">>
StrValues == {<< >>, StrA, StrB, StrAB, StrBA}
NumValues == {10, 15, 20}

StrConds == {StrCond("name", v, o) : v \in StrValues, o \in StrOps}
NumConds == {NumCond("fk", v, o) : v \in NumValues, o \in NumOps}

\* Composites without sub-conditions, one per operation name.
EmptyComposites == {Composite(<< >>, o) : o \in {"and", "or", "xor"}}

\* The conditions combined two by two.
PairConds ==
  { NameContainsA, FkGte20,
    StrCond("name", StrB, "eq"),
    NumCond("id", 1, "lte"),
    StrCond("name", StrA, "like"),
    Composite(<<NameContainsA, FkGte20>>, "or"),
    Composite(<< >>, "or") }

MatchConds ==
  StrConds \cup NumConds \cup EmptyComposites
    \cup {Composite(<<c1, c2>>, o) : c1, c2 \in PairConds, o \in {"and", "or", "xor"}}

\* The entities Match is applied to.
EvalItems == Universe \cup {ZeroEntity, [id |-> 3, fk |-> 15, name |-> StrBA]}

\* Query on the store of either type.
QueryOf(s, n, ord, c) ==
  IF kind = "primary" THEN CM_Query(s, n, ord, c) ELSE RCM_Query(s, n, ord, c)

\* cache := New...(loader) with ttl MaxTTL; cache.Refresh() at time 1.
InitEval ==
  /\ kind \in {"primary", "related"}
  /\ now = 1
  /\ \E out \in {o \in LoadOutcomes : o.err = NoErr} :
       LET s0 == [data |-> EmptyMap, fkIndex |-> EmptyMap, ttl |-> MaxTTL,
                  lastFetch |-> ZeroTime]
           r == IF kind = "primary" THEN CM_Refresh(s0, 1, out)
                ELSE RCM_Refresh(s0, 1, out)
       IN /\ data = r.store.data
          /\ fkIndex = r.store.fkIndex
          /\ ttl = r.store.ttl
          /\ lastFetch = r.store.lastFetch
          /\ snap = out.items
  /\ last = NoOp
  /\ snapAt = 1
  /\ hasSnap = TRUE
  /\ dropped = FALSE
  /\ th = [t \in Threads |-> Idle]
  /\ readers = {}
  /\ wowner = NoThread
  /\ committed = [data |-> data, fkIndex |-> fkIndex, lastFetch |-> lastFetch]
  /\ ev = NoEval
  /\ twin = NoTwin

\* condition.Match(item)
EvalMatch ==
  /\ ev = NoEval
  /\ \E c \in MatchConds, e \in EvalItems :
       ev' = [kind |-> "match", cond |-> c, item |-> e, res |-> Match(c, e),
              calls |-> MatchCalls(c, e, << >>)]
  /\ UNCHANGED <<storeVars, now, last, histVars, concVars, twin>>

\* cache.Query(c1), cache.Query(c2) and cache.Query of their composite.
EvalQueries ==
  /\ ev = NoEval
  /\ \E c1, c2 \in PairConds, o \in {"and", "or"} :
       \E ord1, ord2, ord3 \in IterOrders(data) :
         ev' = [kind |-> "queries", c1 |-> c1, c2 |-> c2, op |-> o,
                r1 |-> QueryOf(Store, now, ord1, c1),
                r2 |-> QueryOf(Store, now, ord2, c2),
                r |-> QueryOf(Store, now, ord3, Composite(<<c1, c2>>, o))]
  /\ UNCHANGED <<storeVars, now, last, histVars, concVars, twin>>

NextEval ==
  \/ EvalMatch
  \/ EvalQueries

SpecEval == InitEval /\ [][NextEval]_vars

\* ---------------------------------------------------- the two stores, paired
\* SpecPair: a Related store (the store variables) and a Primary store (twin)
\* with the same ttl > 0 and the same loader, on which the same operations
\* are called at the same times.

\* NewRelatedCacheManager(loader, d) and NewCacheManager(loader).WithTTL(d).
InitPair ==
  /\ kind = "related"
  /\ data = EmptyMap
  /\ fkIndex = EmptyMap
  /\ ttl \in 1..MaxTTL
  /\ lastFetch = ZeroTime
  /\ now = 1
  /\ last = NoOp
  /\ snap = << >>
  /\ snapAt = ZeroTime
  /\ hasSnap = FALSE
  /\ dropped = FALSE
  /\ th = [t \in Threads |-> Idle]
  /\ readers = {}
  /\ wowner = NoThread
  /\ committed = [data |-> EmptyMap, fkIndex |-> EmptyMap, lastFetch |-> ZeroTime]
  /\ ev = NoEval
  /\ twin = [NoTwin EXCEPT !.store = CM_WithTTL(NoTwin.store, ttl)]

PairGet ==
  /\ Ready
  /\ \E id \in Ids :
       /\ last' = Op("Get", id, RCM_Get(Store, now, id))
       /\ twin' = [twin EXCEPT !.res = CM_Get(twin.store, now, id)]
  /\ UNCHANGED <<storeVars, now, histVars, concVars, ev>>

PairGetAll ==
  /\ Ready
  /\ \E ord \in IterOrders(data), pord \in IterOrders(twin.store.data) :
       /\ last' = Op("GetAll", 0, RCM_GetAll(Store, now, ord))
       /\ twin' = [twin EXCEPT !.res = CM_GetAll(twin.store, now, pord)]
  /\ UNCHANGED <<storeVars, now, histVars, concVars, ev>>

PairQuery ==
  /\ Ready
  /\ \E k \in DOMAIN QueryConds :
       \E ord \in IterOrders(data), pord \in IterOrders(twin.store.data) :
         /\ last' = Op("Query", k, RCM_Query(Store, now, ord, QueryConds[k]))
         /\ twin' = [twin EXCEPT
                       !.res = CM_Query(twin.store, now, pord, QueryConds[k])]
  /\ UNCHANGED <<storeVars, now, histVars, concVars, ev>>

\* Both loaders return the same snapshot, or the same error.
PairRefresh ==
  /\ Ready
  /\ \E out \in LoadOutcomes :
       LET r == RCM_Refresh(Store, now, out)
           p == CM_Refresh(twin.store, now, out)
       IN /\ SetStore(r.store)
          /\ last' = [op |-> "Refresh", arg |-> 0,
                      res |-> [NoResult EXCEPT !.err = r.err], out |-> out,
                      ttl0 |-> ttl]
          /\ twin' = [store |-> p.store, res |-> [NoResult EXCEPT !.err = p.err]]
          /\ Loaded(out)
  /\ UNCHANGED <<now, concVars, ev>>

PairClear ==
  /\ Ready
  /\ SetStore(RCM_Clear(Store))
  /\ last' = Op("Clear", 0, NoResult)
  /\ twin' = [store |-> CM_Clear(twin.store), res |-> NoResult]
  /\ hasSnap' = FALSE
  /\ UNCHANGED <<now, snap, snapAt, dropped, concVars, ev>>

NextPair ==
  \/ Return
  \/ Tick
  \/ PairGet
  \/ PairGetAll
  \/ PairQuery
  \/ PairRefresh
  \/ PairClear

SpecPair == InitPair /\ [][NextPair]_vars

\* ------------------------------------------------------------------ claims
\* What the claims expect, stated on the state and not through the
\* operators above.

\* The store is judged expired now.
ExpiredPrimary == ttl > 0 /\ lastFetch # ZeroTime /\ now - lastFetch > ttl
ExpiredRelated == lastFetch # ZeroTime /\ now - lastFetch > ttl
Expired == IF kind = "primary" THEN ExpiredPrimary ELSE ExpiredRelated

IdsOf(S) == {S[i].id : i \in DOMAIN S}
\* The last entity of sequence S that has primary key id.
LastOf(S, id) ==
  S[CHOOSE i \in DOMAIN S :
      S[i].id = id /\ \A j \in DOMAIN S : S[j].id = id => j <= i]
\* For each primary key of S, the last entity of S that has it.
KeptOf(S) == {LastOf(S, id) : id \in IdsOf(S)}

Cached == {data[k] : k \in DOMAIN data}
IsRead == last.op \in {"Get", "GetAll", "Query", "GetByForeignKey"}
\* The last operation was a Get that found its entity.
GetSucceeded ==
  /\ ~last.res.panic
  /\ IF kind = "primary" THEN last.res.err = NoErr ELSE last.res.found

\* C1 (as stated): after a successful Refresh of snapshot S, while the store
\* is not expired and no Clear or Refresh has intervened, GetAll returns the
\* set of entities of S and Get(id) succeeds for every id that occurs in S.
C1_ReadAfterRefresh_Original ==
  (hasSnap /\ ~Expired) =>
    /\ last.op = "GetAll" =>
         ~last.res.panic /\ Range(last.res.items) = Range(snap)
    /\ (last.op = "Get" /\ last.arg \in IdsOf(snap)) => GetSucceeded

\* C1 (amended): under the same conditions GetAll returns, for each primary
\* key that occurs in S, the last entity of S with that key, and nothing
\* else (the set of S when no two different entities of S share a key), and
\* Get(id) succeeds for every id that occurs in S.
C1_ReadAfterRefresh ==
  (hasSnap /\ ~Expired) =>
    /\ last.op = "GetAll" =>
         ~last.res.panic /\ Range(last.res.items) = KeptOf(snap)
    /\ (last.op = "Get" /\ last.arg \in IdsOf(snap)) =>
         GetSucceeded /\ last.res.item = LastOf(snap, last.arg)

C1_Witness ==
  /\ hasSnap /\ ~Expired
  /\ last.op = "GetAll"
  /\ Len(snap) = 2 /\ snap[1].id = snap[2].id /\ snap[1] # snap[2]
  /\ Len(last.res.items) = 1

\* C2: a Refresh whose Load returned an error leaves data, fkIndex,
\* lastFetch (and ttl) exactly as they were, so the store is judged expired
\* or fresh as before and holds the entities it held before.
C2_FailedRefreshChangesNothing ==
  [][(last'.op = "Refresh" /\ last'.out.err # NoErr) =>
       /\ data' = data
       /\ fkIndex' = fkIndex
       /\ lastFetch' = lastFetch
       /\ ttl' = ttl
       /\ Expired' = Expired]_vars

C2_Witness ==
  /\ last.op = "Refresh" /\ last.out.err # NoErr
  /\ hasSnap /\ data # EmptyMap /\ lastFetch # ZeroTime

\* C3: Refresh returns exactly the error Load returned, and no error when
\* Load returned none.
C3_RefreshReturnsLoaderError ==
  last.op = "Refresh" => last.res.err = last.out.err

C3_Witness ==
  last.op = "Refresh" /\ last.out.err = "e2" /\ last.res.err = "e2"

\* C5: a read made after a successful Refresh (no later Refresh or Clear,
\* store not expired) is served from that Refresh's snapshot: every entity
\* it returns is an entity of that snapshot, every primary key of the
\* snapshot is served, and no other key is.
C5_ReadsServeLatestSnapshot ==
  (hasSnap /\ ~Expired /\ IsRead) =>
    /\ ~last.res.panic
    /\ Range(last.res.items) \subseteq Range(snap)
    /\ last.op = "GetAll" => {e.id : e \in Range(last.res.items)} = IdsOf(snap)
    /\ last.op = "Get" =>
         /\ GetSucceeded <=> last.arg \in IdsOf(snap)
         /\ GetSucceeded => last.res.item \in Range(snap)

C5_Witness ==
  /\ hasSnap /\ ~Expired /\ snapAt < now
  /\ last.op = "Get" /\ last.arg \notin IdsOf(snap) /\ ~GetSucceeded
  /\ snap # << >>

\* C6 (as stated): on the Primary store GetAll returns an empty sequence when
\* the cache is expired, and otherwise every cached entity exactly once.
C6_GetAllExpiredEmpty_Original ==
  (kind = "primary" /\ last.op = "GetAll") =>
    /\ ~last.res.panic
    /\ ExpiredPrimary => last.res.items = << >>
    /\ ~ExpiredPrimary =>
         /\ Range(last.res.items) = Cached
         /\ Len(last.res.items) = Cardinality(DOMAIN data)

\* C7 (as stated): on the Primary store Query returns an empty sequence when
\* the cache is expired, for every condition.
C7_QueryExpiredEmpty_Original ==
  (kind = "primary" /\ last.op = "Query" /\ ExpiredPrimary) =>
    ~last.res.panic /\ last.res.items = << >>

\* C8: Primary store, ttl = d > 0, successful Refresh at t0 of a snapshot
\* that contains id: Get(id) returns the entity without error at every time
\* in [t0, t0 + d) and an error at every time later than t0 + d.
C8_GetTTLExpiry ==
  (/\ kind = "primary" /\ last.op = "Get"
   /\ hasSnap /\ ttl > 0 /\ last.arg \in IdsOf(snap)) =>
    /\ now < snapAt + ttl =>
         /\ ~last.res.panic /\ last.res.err = NoErr
         /\ last.res.item = LastOf(snap, last.arg)
    /\ now > snapAt + ttl => last.res.err # NoErr

C8_Witness ==
  /\ kind = "primary" /\ last.op = "Get"
  /\ hasSnap /\ ttl > 0 /\ last.arg \in IdsOf(snap)
  /\ now > snapAt + ttl /\ last.res.err # NoErr

\* C9: Primary store Get(id) returns an error exactly when the cache is
\* expired or id is no key of data; otherwise the entity stored for id and
\* a nil error.
C9_GetErrorIff ==
  (kind = "primary" /\ last.op = "Get") =>
    /\ ~last.res.panic
    /\ last.res.err # NoErr <=> (ExpiredPrimary \/ last.arg \notin DOMAIN data)
    /\ last.res.err = NoErr => last.res.item = data[last.arg]

C9_Witness ==
  /\ kind = "primary" /\ last.op = "Get"
  /\ ~ExpiredPrimary /\ last.arg \notin DOMAIN data /\ data # EmptyMap
  /\ last.res.err # NoErr

\* C10: a Primary store with ttl = 0 is never judged expired: whatever
\* lastFetch and the clock are, its reads serve the current contents of data.
C10_ZeroTTLNeverExpires ==
  (kind = "primary" /\ ttl = 0 /\ IsRead) =>
    /\ ~last.res.panic
    /\ last.op = "Get" =>
         /\ last.res.err = NoErr <=> last.arg \in DOMAIN data
         /\ last.arg \in DOMAIN data => last.res.item = data[last.arg]
    /\ last.op = "GetAll" =>
         /\ Range(last.res.items) = Cached
         /\ Len(last.res.items) = Cardinality(DOMAIN data)
    /\ last.op = "Query" =>
         Range(last.res.items) = {e \in Cached : Match(QueryConds[last.arg], e)}

C10_Witness ==
  /\ kind = "primary" /\ ttl = 0 /\ last.op = "GetAll"
  /\ lastFetch # ZeroTime /\ now - lastFetch >= 2
  /\ last.res.items # << >>

\* C4: a read that runs concurrently with a Refresh works on one committed
\* state of (data, fkIndex, lastFetch): every field it reads is the field as
\* the last completed Refresh or Clear left it when the read began, and its
\* result is the operation's result on that state.
C4_NoTornRead ==
  \A t \in Threads : \A b \in th[t].base :
    /\ \A v \in th[t].view : v.lastFetch = b.lastFetch
    /\ \A f \in th[t].obsFK : f = b.fkIndex
    /\ \A d \in th[t].obsData : d = b.data
    /\ th[t].pc = "runlock" =>
         \E v \in th[t].view, ord \in IterOrders(b.data) :
           th[t].res =
             ReadResult(kind, th[t].op, th[t].arg,
                        [data |-> b.data, fkIndex |-> b.fkIndex,
                         ttl |-> v.ttl, lastFetch |-> b.lastFetch], v.n, ord)

\* A GetByForeignKey has read the index and the data of a loaded snapshot
\* while a Refresh waits in Lock() for it to leave.
C4_Witness ==
  \E t, u \in Threads :
    /\ th[t].pc = "runlock" /\ th[t].op = "GetByForeignKey"
    /\ th[t].res.items # << >>
    /\ th[u].op = "Refresh" /\ th[u].pc = "drain"

\* C11: expiry removes nothing.  A step in which time passes, or in which a
\* read (Get, GetAll, Query, GetByForeignKey) runs, on an expired or a fresh
\* store, leaves data, fkIndex, lastFetch and ttl as they were; data and
\* fkIndex change only in a successful Refresh or in a Clear.
C11_ExpiryRemovesNothing ==
  [][/\ (now' # now \/ last'.op \in {"Get", "GetAll", "Query", "GetByForeignKey"}) =>
          /\ data' = data
          /\ fkIndex' = fkIndex
          /\ lastFetch' = lastFetch
          /\ ttl' = ttl
     /\ (data' # data \/ fkIndex' # fkIndex) =>
          \/ last'.op = "Refresh" /\ last'.out.err = NoErr
          \/ last'.op = "Clear"]_vars

\* A read has run on an expired store that still holds its stale entries.
C11_Witness ==
  /\ kind = "related" /\ last.op = "GetAll" /\ ExpiredRelated
  /\ hasSnap /\ data # EmptyMap /\ fkIndex # EmptyMap
  /\ last.res.items = << >>

\* C12: on the Related store, while it is expired, Get returns the zero
\* entity with found = false, and GetAll, Query and GetByForeignKey return
\* an empty sequence; none of them fails.
C12_RelatedExpiredReadsEmpty ==
  (kind = "related" /\ IsRead /\ ExpiredRelated) =>
    /\ ~last.res.panic
    /\ last.res.err = NoErr
    /\ last.res.items = << >>
    /\ last.op = "Get" => (last.res.item = ZeroEntity /\ ~last.res.found)

C12_Witness ==
  /\ kind = "related" /\ last.op = "GetByForeignKey" /\ ExpiredRelated
  /\ Bucket(fkIndex, last.arg) # << >>
  /\ last.res.items = << >>

\* C13: before the first successful Refresh (failed attempts included)
\* lastFetch is unset and neither store is judged expired, whatever ttl is:
\* the store is empty, Get reports not-found (and never "expired"), GetAll,
\* Query and GetByForeignKey return empty results.
C13_UnsetNeverExpired ==
  snapAt = ZeroTime =>
    /\ lastFetch = ZeroTime
    /\ ~Expired
    /\ data = EmptyMap /\ fkIndex = EmptyMap
    /\ IsRead =>
         /\ ~last.res.panic
         /\ last.res.items = << >>
         /\ last.op = "Get" =>
              /\ ~GetSucceeded
              /\ last.res.err = (IF kind = "primary" THEN ErrNotFound ELSE NoErr)

\* A never-refreshed Primary store whose ttl is shorter than the time since
\* the zero instant has answered a Get.
C13_Witness ==
  /\ snapAt = ZeroTime /\ kind = "primary"
  /\ ttl > 0 /\ now - ZeroTime > ttl
  /\ last.op = "Get" /\ last.res.err = ErrNotFound

\* C14: a Related store with ttl = 0 that was refreshed at t0 is expired at
\* every time later than t0 (Get finds nothing, the other reads are empty),
\* whereas a Primary store with ttl = 0 keeps serving the snapshot.
C14_RelatedZeroTTLExpires ==
  /\ (kind = "related" /\ ttl = 0 /\ snapAt # ZeroTime /\ now > snapAt /\ IsRead) =>
       /\ ~last.res.panic
       /\ last.res.items = << >>
       /\ last.op = "Get" => ~last.res.found
  /\ (kind = "primary" /\ ttl = 0 /\ hasSnap /\ IsRead) =>
       /\ ~last.res.panic
       /\ last.op = "GetAll" => Range(last.res.items) = KeptOf(snap)
       /\ (last.op = "Get" /\ last.arg \in IdsOf(snap)) => GetSucceeded

C14_Witness ==
  /\ kind = "related" /\ ttl = 0
  /\ hasSnap /\ snap # << >> /\ now > snapAt
  /\ last.op = "Get" /\ last.arg \in IdsOf(snap) /\ ~last.res.found


\* The positions <<f, i>> of the foreign-key index: bucket f, i-th entry.
IndexSlots == UNION {{<<f, i>> : i \in DOMAIN fkIndex[f]} : f \in DOMAIN fkIndex}

\* C15 (as stated): after a successful Refresh of the Related store, before
\* expiry, an entity e of the snapshot is returned by GetByForeignKey(f)
\* exactly when f is the foreign key of e.
C15_FKIndexCorrect_Original ==
  (kind = "related" /\ hasSnap /\ ~ExpiredRelated /\ last.op = "GetByForeignKey") =>
    \A e \in Range(snap) :
      e \in Range(last.res.items) <=> e.fk = last.arg

\* C16 (as stated): GetByForeignKey(f) on a non-expired Related store returns
\* the entities of the most recently loaded snapshot that have foreign key f,
\* in the order in which they occur in it (none when f has no bucket).
C16_FKOrder_Original ==
  (kind = "related" /\ hasSnap /\ ~ExpiredRelated /\ last.op = "GetByForeignKey") =>
    last.res.items = SelectSeq(snap, LAMBDA e : e.fk = last.arg)

\* C17 (as stated): after every successful Refresh of the Related store each
\* primary key stored in data occupies exactly one position of fkIndex: one
\* bucket, and one entry of that bucket.
C17_OneBucketPerKey_Original ==
  (kind = "related" /\ hasSnap) =>
    \A pk \in DOMAIN data :
      Cardinality({p \in IndexSlots : fkIndex[p[1]][p[2]] = pk}) = 1


\* C18: Refresh replaces, it never patches.  After a successful Refresh (no
\* Clear since) the keys of data are the ids of the new snapshot and data
\* holds nothing else, every entry of fkIndex comes from a row of the new
\* snapshot, and no read returns an entity that is not of the new snapshot.
C18_RefreshReplaces ==
  hasSnap =>
    /\ DOMAIN data = IdsOf(snap)
    /\ Cached = KeptOf(snap)
    /\ kind = "related" =>
         /\ DOMAIN fkIndex = {snap[i].fk : i \in DOMAIN snap}
         /\ Cardinality(IndexSlots) = Len(snap)
         /\ \A p \in IndexSlots :
              \E i \in DOMAIN snap :
                snap[i].fk = p[1] /\ snap[i].id = fkIndex[p[1]][p[2]]
    /\ kind = "primary" => fkIndex = EmptyMap
    /\ (IsRead /\ ~last.res.panic) =>
         /\ Range(last.res.items) \subseteq KeptOf(snap)
         /\ (last.op = "Get" /\ GetSucceeded) => last.res.item \in KeptOf(snap)

\* The latest Refresh dropped a key that was cached, and a Get of a key
\* absent from the new snapshot has found nothing.
C18_Witness ==
  /\ kind = "related" /\ hasSnap /\ dropped /\ ~ExpiredRelated
  /\ snap # << >>
  /\ last.op = "Get" /\ last.arg \notin IdsOf(snap) /\ ~last.res.found

\* C19: Clear empties data and fkIndex, leaves lastFetch and ttl as they
\* were and takes nothing from the loader; on a store that holds nothing
\* since (no Refresh succeeded after the Clear) and is not expired, GetAll,
\* Query and GetByForeignKey return an empty sequence and Get finds nothing.
C19_ClearKeepsFetchAndTTL ==
  /\ [][last'.op = "Clear" =>
          /\ data' = EmptyMap
          /\ fkIndex' = EmptyMap
          /\ lastFetch' = lastFetch
          /\ ttl' = ttl
          /\ last'.out = NoLoad /\ snap' = snap /\ snapAt' = snapAt]_vars
  /\ []((~hasSnap /\ ~Expired /\ IsRead) =>
          /\ ~last.res.panic
          /\ last.res.items = << >>
          /\ last.op = "Get" => ~GetSucceeded)

\* A Primary store with ttl = 0 that was refreshed and then cleared has
\* answered GetAll.
C19_Witness ==
  /\ kind = "primary" /\ ttl = 0
  /\ lastFetch # ZeroTime /\ snap # << >> /\ ~hasSnap
  /\ ~ExpiredPrimary
  /\ last.op = "GetAll" /\ ~last.res.panic /\ last.res.items = << >>

\* Positions between mu.Lock() and mu.Unlock(), and between mu.RLock() and
\* mu.RUnlock().
WriterInside(t) ==
  th[t].pc \in {"load", "setdata", "setindex", "setfetch", "cleardata",
                "clearindex", "unlock"}
ReaderInside(t) == th[t].pc \in {"expired", "index", "scan", "runlock"}

\* C20: at most one Refresh or Clear is inside its critical section, no read
\* is inside its own while one is, and a Refresh that is about to unlock
\* leaves exactly what it built from its own snapshot.
C20_WriterExclusion ==
  /\ \A t, u \in Threads : (WriterInside(t) /\ WriterInside(u)) => t = u
  /\ \A t, u \in Threads : ~(WriterInside(t) /\ ReaderInside(u))
  /\ \A t \in Threads :
       (th[t].pc = "unlock" /\ th[t].op = "Refresh" /\ th[t].out.err = NoErr) =>
         /\ DOMAIN data = IdsOf(th[t].out.items)
         /\ Cached = KeptOf(th[t].out.items)
         /\ lastFetch # ZeroTime
         /\ kind = "related" => Cardinality(IndexSlots) = Len(th[t].out.items)

\* A Refresh is inside its critical section while another Refresh waits in
\* mu.Lock().
C20_Witness ==
  \E t, u \in Threads :
    /\ th[t].op = "Refresh" /\ th[t].pc = "setfetch"
    /\ th[u].op = "Refresh" /\ th[u].pc = "lock"


\* C21: the loader is called with the exclusive lock held, and from the
\* moment a Refresh has acquired the lock until it returns (the whole of
\* Load included) no read and no other Refresh or Clear completes.
C21_RefreshBlocksOthers ==
  [][\A t \in Threads :
       (th[t].op = "Refresh" /\ WriterInside(t)) =>
         /\ wowner = t /\ readers = {}
         /\ \A u \in Threads \ {t} :
              ~(th[u].pc # "idle" /\ th'[u].pc = "idle")]_vars

\* A Refresh has called Load and holds the lock, while a read waits in
\* mu.RLock().
C21_Witness ==
  \E t, u \in Threads :
    /\ th[t].op = "Refresh" /\ th[t].pc = "setdata"
    /\ th[u].op \in {"Get", "GetAll", "Query", "GetByForeignKey"}
    /\ th[u].pc = "rlock"

\* C22: a Refresh calls Load exactly once, whether Load fails or not, and no
\* other operation calls it: a thread's count of Load calls is 1 from the
\* return of Load to the return of its Refresh, and 0 everywhere else.
C22_LoadOncePerRefresh ==
  \A t \in Threads :
    th[t].loads =
      (IF th[t].op = "Refresh" /\ th[t].pc \notin {"lock", "drain", "load"}
       THEN 1 ELSE 0)

\* A Refresh whose one Load failed is about to return, while a read of the
\* never-loaded store is in progress.
C22_Witness ==
  \E t, u \in Threads :
    /\ th[t].op = "Refresh" /\ th[t].pc = "unlock"
    /\ th[t].out.err # NoErr /\ th[t].loads = 1
    /\ th[u].op = "GetAll" /\ th[u].pc = "rlock" /\ data = EmptyMap


\* C23: WithTTL(d) sets the Primary store's ttl to d and changes nothing
\* else, and the new ttl decides the reads that follow: once the store has
\* been refreshed, a read at a time when now - lastFetch > ttl > 0 is
\* answered "expired", and a read when ttl = 0 or now - lastFetch <= ttl is
\* served from the retained data.
C23_WithTTLGovernsNextRead ==
  /\ [][last'.op = "WithTTL" =>
          /\ ttl' = last'.arg
          /\ data' = data
          /\ fkIndex' = fkIndex
          /\ lastFetch' = lastFetch
          /\ kind' = kind /\ now' = now]_vars
  /\ []((kind = "primary" /\ IsRead /\ lastFetch # ZeroTime) =>
          /\ (ttl > 0 /\ now - lastFetch > ttl /\ last.op = "Get") =>
               last.res.err = ErrExpired
          /\ (ttl = 0 \/ (ttl > 0 /\ now - lastFetch <= ttl)) =>
               /\ ~last.res.panic
               /\ last.op = "Get" =>
                    /\ last.res.err = NoErr <=> last.arg \in DOMAIN data
                    /\ last.arg \in DOMAIN data => last.res.item = data[last.arg]
               /\ last.op = "GetAll" => Range(last.res.items) = Cached)

\* WithTTL(0) has just returned on a store that held data and was expired
\* under the ttl it replaced.
C23_Witness ==
  /\ kind = "primary" /\ last.op = "WithTTL" /\ last.arg = 0 /\ ttl = 0
  /\ hasSnap /\ data # EmptyMap
  /\ last.ttl0 > 0 /\ now - lastFetch > last.ttl0


\* C24: the Related store's Get(id) never returns an error: it returns
\* (entity, true) exactly when the store is not expired and id is a key of
\* data, and (zero value, false) in every other state.
C24_RelatedGetFlag ==
  (kind = "related" /\ last.op = "Get") =>
    /\ ~last.res.panic
    /\ last.res.err = NoErr
    /\ last.res.found <=> (~ExpiredRelated /\ last.arg \in DOMAIN data)
    /\ last.res.found => last.res.item = data[last.arg]
    /\ ~last.res.found => last.res.item = ZeroEntity

\* Get has missed an id on a fresh store that holds another id.
C24_Witness ==
  /\ kind = "related" /\ last.op = "Get"
  /\ ~ExpiredRelated /\ data # EmptyMap /\ last.arg \notin DOMAIN data
  /\ ~last.res.found /\ last.res.item = ZeroEntity

\* C25: on a non-expired store of either type Query(c) returns exactly the
\* cached entities that c matches, each one once.
C25_QueryReturnsMatches ==
  (last.op = "Query" /\ ~Expired) =>
    /\ ~last.res.panic
    /\ Range(last.res.items) = {e \in Cached : Match(QueryConds[last.arg], e)}
    /\ \A i, j \in DOMAIN last.res.items :
         last.res.items[i] = last.res.items[j] => i = j

\* Query has returned both cached entities.
C25_Witness ==
  /\ kind = "related" /\ last.op = "Query" /\ ~ExpiredRelated
  /\ Cardinality(DOMAIN data) = 2 /\ Len(last.res.items) = 2


\* C26: on non-expired contents, Query of the composite [c1, c2] returns,
\* as a set of entities, the intersection of Query(c1) and Query(c2) when
\* its operation is "and", and their union when it is "or".
C26_CompositeAndOr ==
  (ev.kind = "queries" /\ ~Expired) =>
    /\ ~ev.r.panic /\ ~ev.r1.panic /\ ~ev.r2.panic
    /\ ev.op = "and" =>
         Range(ev.r.items) = Range(ev.r1.items) \cap Range(ev.r2.items)
    /\ ev.op = "or" =>
         Range(ev.r.items) = Range(ev.r1.items) \cup Range(ev.r2.items)

\* An "and" query whose two conditions each select something and whose
\* intersection is smaller than both selections.
C26_Witness ==
  /\ ev.kind = "queries" /\ ev.op = "and" /\ ~Expired
  /\ Range(ev.r1.items) # Range(ev.r2.items)
  /\ Len(ev.r1.items) = 2 /\ Len(ev.r2.items) = 1 /\ Len(ev.r.items) = 1

\* C27 (as stated): a composite condition without sub-conditions matches
\* every entity when its operation is "and" and no entity when it is "or".
C27_EmptyComposite_Original ==
  (ev.kind = "match" /\ ev.cond.type = "composite" /\ ev.cond.conds = << >>) =>
    /\ ev.cond.op = "and" => ev.res = TRUE
    /\ ev.cond.op = "or" => ev.res = FALSE

\* s = pre . v . post for some pre and post; s begins with v; s ends with v.
HasInfix(s, v) ==
  \E i \in 0..Len(s) : \E j \in i..Len(s) :
    [k \in 1..(j - i) |-> s[i + k]] = v
HasPrefix(s, v) == \E j \in 0..Len(s) : [k \in 1..j |-> s[k]] = v
HasSuffix(s, v) ==
  \E i \in 0..Len(s) : [k \in 1..(Len(s) - i) |-> s[i + k]] = v

\* C28: a string-field condition matches exactly when the extracted field
\* equals the target ("eq"), contains it ("contains"), starts with it
\* ("startsWith") or ends with it ("endsWith"); under every other operation
\* name, the empty one included, it matches nothing.
C28_StringCondition ==
  (ev.kind = "match" /\ ev.cond.type = "string") =>
    LET f == ev.item[ev.cond.field]
        v == ev.cond.value
        o == ev.cond.op
    IN ev.res <=>
         \/ o = "eq" /\ f = v
         \/ o = "contains" /\ HasInfix(f, v)
         \/ o = "startsWith" /\ HasPrefix(f, v)
         \/ o = "endsWith" /\ HasSuffix(f, v)

\* A condition with the empty operation name has rejected an entity whose
\* field equals the target.
C28_Witness ==
  /\ ev.kind = "match" /\ ev.cond.type = "string" /\ ev.cond.op = ""
  /\ ev.item[ev.cond.field] = ev.cond.value /\ ev.cond.value = StrAB
  /\ ev.res = FALSE

\* C29: a numeric-field condition matches exactly when the extracted field
\* v and the target t satisfy v = t ("eq"), v > t ("gt"), v >= t ("gte"),
\* v < t ("lt") or v <= t ("lte"); under every other operation name it
\* matches nothing.
C29_NumberCondition ==
  (ev.kind = "match" /\ ev.cond.type = "number") =>
    LET v == ev.item[ev.cond.field]
        t == ev.cond.value
        o == ev.cond.op
    IN ev.res <=>
         \/ o = "eq" /\ v = t
         \/ o = "gt" /\ t < v
         \/ o = "gte" /\ ~(v < t)
         \/ o = "lt" /\ v < t
         \/ o = "lte" /\ ~(t < v)

\* "gte" has matched an entity whose field equals the target.
C29_Witness ==
  /\ ev.kind = "match" /\ ev.cond.type = "number" /\ ev.cond.op = "gte"
  /\ ev.item[ev.cond.field] = ev.cond.value
  /\ ev.res = TRUE


\* C30 (as stated): every write of data, fkIndex, lastFetch or ttl by a
\* public operation, WithTTL included, is made by a thread that holds the
\* store's lock exclusively, so that no other operation is inside a critical
\* section in which it reads or writes the field.
C30_ThreadSafe_Original ==
  [][(data' # data \/ fkIndex' # fkIndex \/ lastFetch' # lastFetch \/ ttl' # ttl) =>
       /\ \E t \in Threads : wowner = t /\ WriterInside(t)
       /\ \A u \in Threads : ~ReaderInside(u)]_vars


\* C31: reads do not exclude each other.  While no Refresh or Clear holds
\* the lock or waits for it, a read that calls mu.RLock() gets the lock,
\* whichever other reads are inside their critical sections.
C31_ReadersShare ==
  \A t \in Threads :
    (th[t].pc = "rlock" /\ \A u \in Threads : th[u].pc # "drain" /\ ~WriterInside(u))
      => ENABLED RLock(t)

\* Two reads are inside their critical sections at the same time.
C31_Witness ==
  \E t, u \in Threads :
    /\ t # u
    /\ ReaderInside(t) /\ ReaderInside(u)
    /\ th[t].op = "GetAll" /\ th[u].op = "Get"
    /\ data # EmptyMap


\* C32 (as stated): with the same ttl d > 0, the same snapshots and the same
\* operations at the same times, the Related store's GetAll and Query return
\* the same set of entities as the Primary store's, and its Get(id) reports
\* found exactly when the Primary store's Get(id) returns no error, with the
\* same entity.
C32_RelatedRefinesPrimary_Original ==
  /\ last.op \in {"GetAll", "Query"} =>
       /\ ~last.res.panic /\ ~twin.res.panic
       /\ Range(last.res.items) = Range(twin.res.items)
  /\ last.op = "Get" =>
       /\ last.res.found <=> twin.res.err = NoErr
       /\ last.res.found => last.res.item = twin.res.item


\* The sub-condition of c at path p, and whether p leads to one.
RECURSIVE SubAt(_, _)
SubAt(c, p) == IF p = << >> THEN c ELSE SubAt(c.conds[Head(p)], Tail(p))

RECURSIVE ValidPath(_, _)
ValidPath(c, p) ==
  \/ p = << >>
  \/ /\ c.type = "composite"
     /\ Head(p) \in DOMAIN c.conds
     /\ ValidPath(c.conds[Head(p)], Tail(p))

\* The sub-condition at path p is to be evaluated: its parent is, and the
\* parent's sub-conditions before it have all matched ("and") or have all
\* failed to match ("or").
RECURSIVE MustEvaluate(_, _, _)
MustEvaluate(c, item, p) ==
  \/ p = << >>
  \/ LET par == SubSeq(p, 1, Len(p) - 1)
         i == p[Len(p)]
         pc == SubAt(c, par)
     IN /\ MustEvaluate(c, item, par)
        /\ \/ pc.op = "and" /\ \A j \in 1..(i - 1) : Match(pc.conds[j], item)
           \/ pc.op = "or" /\ \A j \in 1..(i - 1) : ~Match(pc.conds[j], item)

\* p is evaluated before q when sub-conditions are taken in sequence order,
\* a composite before its own sub-conditions.
Precedes(p, q) ==
  \/ Len(p) < Len(q) /\ SubSeq(q, 1, Len(p)) = p
  \/ \E k \in 1..Len(p) :
       /\ k <= Len(q)
       /\ SubSeq(p, 1, k - 1) = SubSeq(q, 1, k - 1)
       /\ p[k] < q[k]

\* Paths of every sub-condition of the composites evaluated.
SubPaths == {p \in AllSeqs(1..2, 2) : p # << >>}

\* C33: a composite evaluates its sub-conditions in sequence order and
\* stops, with "and", after the first that does not match and, with "or",
\* after the first that matches; a composite that is a sub-condition is
\* evaluated by the same rule.
C33_ShortCircuit ==
  (ev.kind = "match" /\ ev.cond.type = "composite" /\ ev.cond.op \in {"and", "or"}) =>
    /\ Range(ev.calls) =
         {p \in SubPaths : ValidPath(ev.cond, p) /\ MustEvaluate(ev.cond, ev.item, p)}
    /\ \A i, j \in DOMAIN ev.calls :
         i < j => Precedes(ev.calls[i], ev.calls[j])

\* An "and" composite whose first sub-condition is an "or" composite: the
\* "or" stopped at its first sub-condition, and the "and" went on to its
\* second.
C33_Witness ==
  /\ ev.kind = "match" /\ ev.cond.type = "composite" /\ ev.cond.op = "and"
  /\ ev.calls = << <<1>>, <<1, 1>>, <<2>> >>
  /\ Len(ev.cond.conds[1].conds) = 2


\* C38: a composite whose operation is neither "and" nor "or" matches no
\* entity and evaluates no sub-condition when it has at least one, and
\* matches every entity when it has none.
C38_UnknownOperation ==
  (ev.kind = "match" /\ ev.cond.type = "composite" /\ ev.cond.op \notin {"and", "or"}) =>
    IF Len(ev.cond.conds) = 0
    THEN ev.res = TRUE
    ELSE ev.res = FALSE /\ ev.calls = << >>

\* An "xor" composite of two sub-conditions that both match the entity is
\* evaluated.
C38_Witness ==
  /\ ev.kind = "match" /\ ev.cond.type = "composite" /\ ev.cond.op = "xor"
  /\ Len(ev.cond.conds) = 2
  /\ Match(ev.cond.conds[1], ev.item) /\ Match(ev.cond.conds[2], ev.item)
  /\ ev.res = FALSE

\* An "xor" composite without sub-conditions is evaluated.
C38_WitnessEmpty ==
  /\ ev.kind = "match" /\ ev.cond.type = "composite" /\ ev.cond.op = "xor"
  /\ Len(ev.cond.conds) = 0 /\ ev.res = TRUE


\* The primary keys listed in the buckets of fkIndex.
IndexedKeys == {fkIndex[p[1]][p[2]] : p \in IndexSlots}

\* C35: on the Related store, in every reachable state, every primary key
\* listed in a bucket of fkIndex is a key of data, and every key of data is
\* listed in a bucket (Refresh and Clear replace the two maps together); a
\* GetByForeignKey(f) on a non-expired store returns as many entities as
\* fkIndex[f] lists keys.
C35_IndexWithinData ==
  kind = "related" =>
    /\ IndexedKeys \subseteq DOMAIN data
    /\ DOMAIN data \subseteq IndexedKeys
    /\ (last.op = "GetByForeignKey" /\ ~ExpiredRelated) =>
         Len(last.res.items) = Len(Bucket(fkIndex, last.arg))

\* GetByForeignKey has returned two entities from a non-expired store.
C35_Witness ==
  /\ kind = "related" /\ last.op = "GetByForeignKey" /\ ~ExpiredRelated
  /\ Len(Bucket(fkIndex, last.arg)) = 2
  /\ Len(last.res.items) = 2


\* C36: when the snapshot holds several entities with the same primary key,
\* Refresh keeps the last one in snapshot order: data has one entry per
\* distinct primary key, and until the store expires or is cleared Get(id)
\* returns the last entity of the snapshot with that key and GetAll returns
\* one entity per distinct primary key.
C36_LastDuplicateWins ==
  hasSnap =>
    /\ DOMAIN data = IdsOf(snap)
    /\ \A id \in IdsOf(snap) : data[id] = LastOf(snap, id)
    /\ (~Expired /\ last.op = "Get" /\ last.arg \in IdsOf(snap)) =>
         GetSucceeded /\ last.res.item = LastOf(snap, last.arg)
    /\ (~Expired /\ last.op = "GetAll") =>
         /\ ~last.res.panic
         /\ Len(last.res.items) = Cardinality(IdsOf(snap))
         /\ IdsOf(last.res.items) = IdsOf(snap)

\* Get(id) on the Related store returned the second of two different
\* entities of the snapshot that have primary key id.
C36_Witness ==
  /\ kind = "related" /\ hasSnap /\ ~Expired
  /\ last.op = "Get"
  /\ Len(snap) = 2 /\ snap[1].id = last.arg /\ snap[2].id = last.arg
  /\ snap[1] # snap[2]
  /\ last.res.found /\ last.res.item = snap[2]


\* C37: freshness comes only from a successful Refresh.  A store with
\* ttl > 0 that is judged expired stays expired, as long as ttl is not
\* changed, through every read, Clear, failed Refresh and passage of time;
\* the step that makes it fresh again is a Refresh whose Load succeeded, and
\* that Refresh sets lastFetch to the current time.
C37_FreshOnlyByRefresh ==
  /\ [][(Expired /\ ttl > 0 /\ ttl' = ttl /\ ~Expired') =>
          (last'.op = "Refresh" /\ last'.out.err = NoErr /\ lastFetch' = now')]_vars
  /\ [][(Ready /\ last'.op = "Refresh" /\ last'.out.err = NoErr) =>
          (lastFetch' = now' /\ (ttl > 0 => ~Expired'))]_vars

\* A Refresh has failed on an expired store with ttl > 0, and the store is
\* still expired.
C37_Witness ==
  /\ ttl > 0 /\ Expired
  /\ last.op = "Refresh" /\ last.out.err # NoErr
  /\ last.ttl0 = ttl

\* An expired store with ttl > 0 has been made fresh by a Refresh.
C37_WitnessFresh ==
  /\ ttl > 0 /\ ~Expired /\ now > 1 + ttl
  /\ last.op = "Refresh" /\ last.out.err = NoErr
  /\ lastFetch = now


\* The lock is held only by threads that are inside an operation.
LockFreeAtRest ==
  \A t \in Threads : th[t].pc \in {"idle", "rlock", "lock"} => (t \notin readers /\ wowner # t)

\* C34 (as stated): provided every Load call returns and scheduling is
\* fair, every invoked operation eventually returns (it does not end in a
\* panic), whatever it found, and the lock is not held once the operation
\* has ended, so that no later operation blocks forever.
C34_EveryOperationReturns_Original ==
  /\ \A t \in Threads : (th[t].pc # "idle") ~> (th[t].pc = "idle")
  /\ [](\A t \in Threads : ~th[t].res.panic)
  /\ []LockFreeAtRest


====
